---- MODULE Spec2Model ----
(***************************************************************************)
(* Playback session controller of Swarr (frontend/src/App.tsx): the App    *)
(* component's state, its refs, the WebSocket channel of each handlePlay   *)
(* invocation, the Tone transport and the finalize timer.                  *)
(*                                                                         *)
(* Each invocation of handlePlay that passes the isPlaying guard owns a    *)
(* closure (musicalEvents, errorMessages, collectedErrors, palette, its    *)
(* WebSocket and its finalStop timer): the variable closure holds it,      *)
(* indexed by the invocation's number.                                     *)
(***************************************************************************)
EXTENDS Integers, Sequences, FiniteSets, TLC

\* ---------------------------------------------------------------- bounds
\* handlePlay invocations of which something can still run, at one time
MaxSessions == 2
\* CodeEvents of one stream
MaxEvents == 1
\* Tone.Draw callbacks pending at one time
MaxPendingDraws == 2

\* CodeEvents of a stream a session is started from (StreamSpec)
MaxCompileLen == 3
\* CodeEvents of a long stream of declarations (NodesSpec)
MaxSpawns == 32
MaxLine == 9
MaxCount == 4

Sessions == 1..MaxSessions
NoSession == 0

\* ------------------------------------------------------- program constants
\* prev.slice(-30) in the draw callback
SliceKeep == 30
\* the tail of the finalize timer: (cumulativeTime + 2) * 1000
TailSeconds == 2
\* Tone.Time(d).toSeconds() at Tone's default tempo (120 bpm), in ms
MsPerQuarter == 500
\* Tone.Sequence's default subdivision is "8n"
SubdivisionMs == 250

\* --------------------------------------------------------------- the data
musicPalettes ==
    [ k \in {"Go-Concurrent", "Go-Systems", "JS-Async", "JS-DOM",
             "JS-Functional", "Algorithmic-Logic", "default"} |->
        CASE k = "Go-Concurrent" ->
               [scale |-> <<"C3", "D#3", "G3", "G#3", "C4", "D#4", "G4", "G#4">>, synth |-> "FMSynth"]
          [] k = "Go-Systems" ->
               [scale |-> <<"A2", "B2", "C3", "E3", "A3", "B3", "C4", "E4">>, synth |-> "AMSynth"]
          [] k = "JS-Async" ->
               [scale |-> <<"G4", "A4", "C5", "D5", "F5", "G5", "A5", "C6">>, synth |-> "PluckSynth"]
          [] k = "JS-DOM" ->
               [scale |-> <<"C4", "E4", "G4", "A4", "B4", "C5", "E5", "G5">>, synth |-> "PolySynth"]
          [] k = "JS-Functional" ->
               [scale |-> <<"D3", "F3", "A3", "C4", "E4", "F4", "A4", "C5">>, synth |-> "MembraneSynth"]
          [] k = "Algorithmic-Logic" ->
               [scale |-> <<"C4", "D4", "E4", "F#4", "G#4", "A#4", "C5", "D5">>, synth |-> "PolySynth"]
          [] OTHER ->
               [scale |-> <<"C4", "D4", "E4", "F4", "G4", "A4", "B4", "C5">>, synth |-> "PolySynth"] ]

\* The genre labels the classification service answers with: a key of the
\* palette table, a label that is no key, and a label that is no key of the
\* table but a property every object inherits.
Genres == {"JS-Async", "Rust-Systems", "constructor"}

\* The property names an object literal inherits from Object.prototype:
\* `name in musicPalettes` is true of them as it is of the table's own keys.
ObjectPrototypeKeys ==
    {"constructor", "hasOwnProperty", "isPrototypeOf", "propertyIsEnumerable",
     "toLocaleString", "toString", "valueOf", "__proto__"}

\* The CodeEvents the stream can carry.
CodeEvents ==
    { [type |-> "syntax_error", startLine |-> 7, endLine |-> 9,
       isError |-> TRUE, message |-> "missing )"],
      [type |-> "function_declaration", startLine |-> 1, endLine |-> 12,
       isError |-> FALSE, message |-> ""] }

\* The source texts of the editor: blank, and a program.
Codes == {"", "function f() {}"}

\* ------------------------------------------------------------------ state
VARIABLES
    \* React state of App
    code, isPlaying, status, visualNodes, activePalette,
    highlightedLines, summary, persistentErrors,
    \* refs of App: ws.current and stopTimeoutRef.current name the session
    \* whose socket or timer they hold, synth.current is null or a synth
    wsCurrent, synthCurrent, stopTimeoutRef,
    \* the component is mounted
    mounted,
    \* Tone: the audio context runs, the transport, the sessions whose
    \* sequence has events on the transport, the synths not disposed, the
    \* pending Draw callbacks
    toneRunning, transportState, scheduled, synthsAlive, drawQueue,
    \* pending window timers (finalStop of a session)
    timers,
    \* per handlePlay invocation, its closure: where the invocation is (pc),
    \* palette, musicalEvents, errorMessages, collectedErrors,
    \* scheduledEvents, the position of its sequence (seqNext), its WebSocket
    \* (ws: the readyState, the dispatch of its events and, once closed, what
    \* closed it; gotCode: the server has the code), and persistentErrors as
    \* the invocation found it (errorsBefore)
    closure

vars == << code, isPlaying, status, visualNodes, activePalette,
           highlightedLines, summary, persistentErrors,
           wsCurrent, synthCurrent, stopTimeoutRef, mounted,
           toneRunning, transportState, scheduled, synthsAlive,
           drawQueue, timers, closure >>

reactVars == << code, isPlaying, status, visualNodes,
                activePalette, highlightedLines, summary, persistentErrors >>

EmptyMap == [l \in {} |-> ""]
NoSummary == [title |-> "none", messages |-> <<>>]
NoHighlight == [start |-> 0, end |-> 0, type |-> "none", isError |-> FALSE]

\* A set-state call of an unmounted component changes nothing.
SetState(old, new) == IF mounted THEN new ELSE old

\* A variant that keeps the value a key already has.
MapSetFirstWins(m, k, v) ==
    [l \in DOMAIN m \cup {k} |-> IF l \in DOMAIN m THEN m[l] ELSE v]

\* Map.set(k, v)
MapSet(m, k, v) == [l \in DOMAIN m \cup {k} |-> IF l = k THEN v ELSE m[l]]

\* ------------------------------------------------- the timeline compiler
\* Tone.Time(duration).toSeconds(), in milliseconds
ToSeconds(duration) ==
    CASE duration = "4n" -> MsPerQuarter
      [] duration = "8n" -> MsPerQuarter \div 2
      [] OTHER -> MsPerQuarter \div 4

\* A variant that leaves the sign as it is.
AbsKeepsSign(x) == x

\* Math.abs
Abs(x) == IF x < 0 THEN -x ELSE x

\* a % b of JavaScript, b positive: the remainder has the sign of a
JsRem(a, b) == IF a >= 0 THEN a % b ELSE -((-a) % b)

\* scale[i % scale.length] of a 0-based JavaScript array: undefined when the
\* index is no index of the array
ScaleAt(scale, i) ==
    LET k == JsRem(i, Len(scale))
    IN  IF k \in 0..(Len(scale) - 1) THEN scale[k + 1] ELSE "undefined"

\* The note and duration of an error event (the switch on event.type).
\* A note is the sequence of its pitches: one pitch, or a pair.
ErrorSound(type) ==
    CASE type = "syntax_error" -> [note |-> <<"C2", "C#2">>, duration |-> "8n"]
      [] type = "logical_error" -> [note |-> <<"E2", "F2">>, duration |-> "16n"]
      [] type = "best_practice" -> [note |-> <<"G2", "G#2">>, duration |-> "16n"]
      [] OTHER -> [note |-> <<"C2">>, duration |-> "16n"]

\* The note and duration of a non-error event.
CodeSound(event, currentScale, messageCounter) ==
    LET noteIndex == Abs(event.startLine + messageCounter)
    IN  IF event.type \in {"function_declaration", "arrow_function"}
        THEN [note |-> << ScaleAt(currentScale, noteIndex),
                          ScaleAt(currentScale, noteIndex + 3) >>,
              duration |-> "4n"]
        ELSE [note |-> << ScaleAt(currentScale, noteIndex) >>,
              duration |-> "16n"]

\* A variant in which an error of no listed kind falls through to the scale.
EventSoundScaleDefault(event, currentScale, messageCounter) ==
    IF event.isError
       /\ event.type \in {"syntax_error", "logical_error", "best_practice"}
    THEN ErrorSound(event.type)
    ELSE CodeSound(event, currentScale, messageCounter)

EventSound(event, currentScale, messageCounter) ==
    IF event.isError THEN ErrorSound(event.type)
    ELSE CodeSound(event, currentScale, messageCounter)

\* A variant that copies startLine into endLine.
NewScheduledEventOneLine(event, currentScale, cumulativeTime, messageCounter) ==
    LET sound == EventSound(event, currentScale, messageCounter)
    IN  [time |-> cumulativeTime, note |-> sound.note,
         duration |-> sound.duration, type |-> event.type,
         startLine |-> event.startLine, endLine |-> event.startLine,
         isError |-> event.isError, message |-> event.message]

\* One turn of musicalEvents.forEach: the entry pushed to scheduledEvents.
NewScheduledEvent(event, currentScale, cumulativeTime, messageCounter) ==
    LET sound == EventSound(event, currentScale, messageCounter)
    IN  [time |-> cumulativeTime, note |-> sound.note,
         duration |-> sound.duration, type |-> event.type,
         startLine |-> event.startLine, endLine |-> event.endLine,
         isError |-> event.isError, message |-> event.message]

\* A variant that advances cumulativeTime before it pushes the entry.
RECURSIVE CompileFromAdvanceFirst(_, _, _, _, _)
CompileFromAdvanceFirst(events, currentScale, i, cumulativeTime, messageCounter) ==
    IF i > Len(events) THEN <<>>
    ELSE LET sound == EventSound(events[i], currentScale, messageCounter)
             e == NewScheduledEvent(events[i], currentScale,
                                    cumulativeTime + ToSeconds(sound.duration),
                                    messageCounter)
         IN  <<e>> \o CompileFromAdvanceFirst(events, currentScale, i + 1,
                                  cumulativeTime + ToSeconds(e.duration),
                                  IF events[i].isError THEN messageCounter
                                  ELSE messageCounter + 1)

\* A variant that counts every event in messageCounter, errors too.
RECURSIVE CompileFromCountAll(_, _, _, _, _)
CompileFromCountAll(events, currentScale, i, cumulativeTime, messageCounter) ==
    IF i > Len(events) THEN <<>>
    ELSE LET e == NewScheduledEvent(events[i], currentScale, cumulativeTime,
                                    messageCounter)
         IN  <<e>> \o CompileFromCountAll(events, currentScale, i + 1,
                                  cumulativeTime + ToSeconds(e.duration),
                                  messageCounter + 1)

RECURSIVE CompileFrom(_, _, _, _, _)
CompileFrom(events, currentScale, i, cumulativeTime, messageCounter) ==
    IF i > Len(events) THEN <<>>
    ELSE LET e == NewScheduledEvent(events[i], currentScale, cumulativeTime,
                                    messageCounter)
         IN  <<e>> \o CompileFrom(events, currentScale, i + 1,
                                  cumulativeTime + ToSeconds(e.duration),
                                  IF events[i].isError THEN messageCounter
                                  ELSE messageCounter + 1)

\* A variant whose messageCounter is not local to the run: it starts from
\* the number of nodes drawn so far.
CompileCarrying(events, paletteKey) ==
    CompileFrom(events, musicPalettes[paletteKey].scale, 1, 0, Len(visualNodes))

\* scheduledEvents after the forEach
Compile(events, paletteKey) ==
    CompileFrom(events, musicPalettes[paletteKey].scale, 1, 0, 0)

\* cumulativeTime after the forEach, in milliseconds: the sum of the
\* durations of the entries
RECURSIVE CumulativeTime(_)
CumulativeTime(sched) ==
    IF sched = <<>> THEN 0
    ELSE ToSeconds(Head(sched).duration) + CumulativeTime(Tail(sched))

\* the delay of window.setTimeout(finalStop, (cumulativeTime + 2) * 1000)
FinalizeDelay(sched) == CumulativeTime(sched) + TailSeconds * 1000

\* Tone.Sequence fires its i-th event (1-based here) at (i-1) subdivisions.
EventOffset(i) == (i - 1) * SubdivisionMs

\* `Line ${startLine}: [${type}] ${message}`
FormatError(data) == << "Line ", data.startLine, ": [", data.type, "] ", data.message >>

\* title and messages of the summaries
ChannelErrorSummary ==
    [title |-> "Connection Error",
     messages |-> << <<"Failed to connect to the visualizer service.">> >>]
BackendErrorSummary ==
    [title |-> "Connection Error",
     messages |-> << <<"Could not connect to the backend service.">> >>]
EmptySummary ==
    [title |-> "Analysis Complete",
     messages |-> << <<"No parsable musical elements were found in the code.">> >>]
\* A variant whose test of errorMessages.length admits 0.
FinalSummaryFromZero(errMsgs) ==
    [title |-> IF Len(errMsgs) >= 0 THEN "Analysis Complete: Issues Found"
               ELSE "Analysis Complete: Code is Clean!",
     messages |-> errMsgs]

FinalSummary(errMsgs) ==
    [title |-> IF Len(errMsgs) > 0 THEN "Analysis Complete: Issues Found"
               ELSE "Analysis Complete: Code is Clean!",
     messages |-> errMsgs]

\* ------------------------------------------------------------- the start
\* The closure of an invocation that has not begun.
FreshClosure ==
    [pc |-> "unused", palette |-> "default", musicalEvents |-> <<>>,
     errorMessages |-> <<>>, collectedErrors |-> EmptyMap,
     scheduledEvents |-> <<>>, seqNext |-> 1, ws |-> "none",
     gotCode |-> FALSE, errorsBefore |-> EmptyMap]

Init ==
    /\ code = "function f() {}"
    /\ isPlaying = FALSE
    /\ status = "Ready. Paste your code and press Play."
    /\ visualNodes = <<>>
    /\ activePalette = "default"
    /\ highlightedLines = NoHighlight
    /\ summary = NoSummary
    /\ persistentErrors = EmptyMap
    /\ wsCurrent = NoSession
    /\ synthCurrent = "null"
    /\ stopTimeoutRef = NoSession
    /\ mounted = TRUE
    /\ toneRunning = FALSE
    /\ transportState = "stopped"
    /\ scheduled = {}
    /\ synthsAlive = 0
    /\ drawQueue = <<>>
    /\ timers = {}
    /\ closure = [s \in Sessions |-> FreshClosure]

\* ---------------------------------------------------- closures and sockets
\* Something of the invocation s can still run: its handlePlay has not
\* returned, its socket has events to dispatch, or its timer, its sequence
\* or a Draw callback of its sequence is pending.
LiveIn(cl, s, tm, sch, dq) ==
    \/ cl[s].pc \in {"awaitStart", "classifying"}
    \/ cl[s].ws \in {"connecting", "open", "closing", "closingFailed", "errorFired"}
    \/ s \in tm
    \/ s \in sch
    \/ \E k \in 1..Len(dq) : dq[k].session = s

Live(s) == LiveIn(closure, s, timers, scheduled, drawQueue)

\* The closures after a step: the closure of an invocation of which nothing
\* can run any more is unreachable, and its place is that of a new one.
Settle(cl) ==
    [s \in Sessions |->
        IF LiveIn(cl, s, timers', scheduled', drawQueue') THEN cl[s]
        ELSE FreshClosure]

\* The step's closures cl and refs w (ws.current) and t (stopTimeoutRef.current).
\* A ref to the socket of an unreachable closure names a closed socket, and a
\* ref to a timer that is not pending names a fired or cleared one: every use
\* of either (close(), the readyState test, send(), clearTimeout) does with
\* it what it does with null, which is what the ref is then held to be.
Commit(cl, w, t) ==
    /\ closure' = Settle(cl)
    /\ wsCurrent' = IF w # NoSession /\ closure'[w].pc = "unused" THEN NoSession ELSE w
    /\ stopTimeoutRef' = IF t \in timers' THEN t ELSE NoSession

Free(s) == closure[s].pc = "unused"
HasFree == \E s \in Sessions : Free(s)
FreeSlot == CHOOSE s \in Sessions : Free(s) /\ \A t \in Sessions : t < s => ~Free(t)

\* The error event and the close event of a failed connection are dispatched
\* in one task: between the two ("errorFired") nothing else runs.
Quiescent == \A s \in Sessions : closure[s].ws # "errorFired"

\* WebSocket.close() of the socket of session s (none when s = NoSession):
\* a connecting socket fails, an open one starts the closing handshake, and
\* a closing or closed one is left as it is.
ClientClose(cl, s) ==
    IF s = NoSession THEN cl
    ELSE CASE cl[s].ws = "connecting" -> [cl EXCEPT ![s].ws = "closingFailed"]
           [] cl[s].ws = "open" -> [cl EXCEPT ![s].ws = "closing"]
           [] OTHER -> cl

\* if (ws.current && ws.current.readyState === WebSocket.OPEN) ws.current.close()
CloseIfOpen(cl, s) ==
    IF s # NoSession /\ cl[s].ws = "open" THEN ClientClose(cl, s) ELSE cl

\* ------------------------------------------------------------- stopMusic
\* stopMusic(finalSummary), run on the closures cl and the timers timersBase
\* (what the caller has made of them before the call). The disposal of
\* sequence.current and Tone.Transport.cancel() leave no event scheduled.
StopMusic(finalSummary, cl, timersBase) ==
    /\ timers' = timersBase \ {stopTimeoutRef}
    /\ transportState' = "stopped"
    /\ scheduled' = {}
    /\ Commit(CloseIfOpen(cl, wsCurrent), wsCurrent, stopTimeoutRef)
    /\ isPlaying' = SetState(isPlaying, FALSE)
    /\ summary' = IF finalSummary # NoSummary
                  THEN SetState(summary, finalSummary) ELSE summary
    /\ status' = SetState(status, IF finalSummary # NoSummary
                                  THEN finalSummary.title
                                  ELSE "Ready to play again.")

\* -------------------------------------------------------------- the editor
HandleCodeChange(newCode) ==
    /\ mounted /\ ~isPlaying /\ Quiescent
    /\ code' = newCode
    /\ IF Cardinality(DOMAIN persistentErrors) > 0
       THEN /\ persistentErrors' = EmptyMap
            /\ highlightedLines' = NoHighlight
       ELSE UNCHANGED << persistentErrors, highlightedLines >>
    /\ UNCHANGED << isPlaying, status, visualNodes, activePalette,
                    summary, synthCurrent, mounted,
                    toneRunning, transportState, scheduled, synthsAlive,
                    drawQueue, timers, closure,
                    wsCurrent, stopTimeoutRef >>

\* SummaryModal's onClose: setSummary(null)
CloseSummary ==
    /\ mounted /\ Quiescent
    /\ summary # NoSummary
    /\ summary' = NoSummary
    /\ UNCHANGED << code, isPlaying, status, visualNodes, activePalette, highlightedLines, persistentErrors,
                    synthCurrent, mounted,
                    toneRunning, transportState, scheduled, synthsAlive,
                    drawQueue, timers, closure,
                    wsCurrent, stopTimeoutRef >>

\* ------------------------------------------------------------- handlePlay
\* A variant without the return: after the close it goes on into the
\* resets of a new session.
HandlePlayStopResets ==
    /\ mounted /\ Quiescent
    /\ code # ""
    /\ isPlaying
    /\ visualNodes' = <<>>
    /\ highlightedLines' = NoHighlight
    /\ summary' = NoSummary
    /\ persistentErrors' = EmptyMap
    /\ status' = "1/3: Classifying code..."
    /\ UNCHANGED << code, isPlaying, activePalette, synthCurrent, mounted, toneRunning,
                    transportState, scheduled, synthsAlive, drawQueue, timers >>
    /\ Commit(ClientClose(closure, wsCurrent), wsCurrent, stopTimeoutRef)

\* The play button while isPlaying: ws.current?.close(); return.
HandlePlayStop ==
    /\ mounted /\ Quiescent
    /\ code # ""
    /\ isPlaying
    /\ UNCHANGED << reactVars, synthCurrent, mounted, toneRunning, transportState, scheduled,
                    synthsAlive, drawQueue, timers >>
    /\ Commit(ClientClose(closure, wsCurrent), wsCurrent, stopTimeoutRef)

\* A variant that keeps the nodes and the summary of the session before.
BeginSessionKeepsScene ==
    /\ isPlaying' = SetState(isPlaying, TRUE)
    /\ highlightedLines' = SetState(highlightedLines, NoHighlight)
    /\ persistentErrors' = SetState(persistentErrors, EmptyMap)
    /\ status' = SetState(status, "1/3: Classifying code...")
    /\ UNCHANGED << code, visualNodes, summary, activePalette, synthCurrent,
                    mounted, transportState, scheduled,
                    synthsAlive, drawQueue, timers >>

\* The try block up to the await of classifyCode: the resets of the state.
BeginSession ==
    /\ isPlaying' = SetState(isPlaying, TRUE)
    /\ visualNodes' = SetState(visualNodes, <<>>)
    /\ highlightedLines' = SetState(highlightedLines, NoHighlight)
    /\ summary' = SetState(summary, NoSummary)
    /\ persistentErrors' = SetState(persistentErrors, EmptyMap)
    /\ status' = SetState(status, "1/3: Classifying code...")
    /\ UNCHANGED << code, activePalette, synthCurrent,
                    mounted, transportState, scheduled,
                    synthsAlive, drawQueue, timers >>

\* The play button while not isPlaying and the audio context not running:
\* the invocation waits for Tone.start().
HandlePlayAwait ==
    /\ mounted /\ Quiescent
    /\ code # ""
    /\ ~isPlaying
    /\ ~toneRunning
    /\ HasFree
    /\ UNCHANGED << reactVars, synthCurrent, mounted, toneRunning, transportState, scheduled,
                    synthsAlive, drawQueue, timers >>
    /\ Commit([closure EXCEPT ![FreeSlot].pc = "awaitStart"], wsCurrent, stopTimeoutRef)

\* The play button while not isPlaying and the audio context running.
HandlePlayBegin ==
    /\ mounted /\ Quiescent
    /\ code # ""
    /\ ~isPlaying
    /\ toneRunning
    /\ HasFree
    /\ BeginSession
    /\ UNCHANGED toneRunning
    /\ Commit([closure EXCEPT ![FreeSlot].pc = "classifying",
                               ![FreeSlot].errorsBefore = persistentErrors],
              wsCurrent, stopTimeoutRef)

\* Tone.start() resolves: the invocation goes on into the try block.
ToneStarted(s) ==
    /\ Quiescent
    /\ closure[s].pc = "awaitStart"
    /\ toneRunning' = TRUE
    /\ BeginSession
    /\ Commit([closure EXCEPT ![s].pc = "classifying",
                               ![s].errorsBefore = persistentErrors],
              wsCurrent, stopTimeoutRef)

\* classification.genre in musicPalettes ? classification.genre : 'default'
PaletteKey(genre) ==
    IF genre \in DOMAIN musicPalettes \cup ObjectPrototypeKeys THEN genre ELSE "default"

\* classifyCode resolves: the palette, the synth (the one before it is
\* disposed), the WebSocket and its handlers; handlePlay returns. Under a
\* key the table only inherits, musicPalettes[paletteKey] has no synth:
\* the synth before is disposed, `new palette.synth` throws and the catch
\* block runs.
ClassifyResolve(s, genre) ==
    /\ Quiescent
    /\ closure[s].pc = "classifying"
    /\ activePalette' = SetState(activePalette, PaletteKey(genre))
    /\ IF PaletteKey(genre) \in DOMAIN musicPalettes
       THEN /\ synthsAlive' = (IF synthCurrent = "synth" THEN synthsAlive - 1
                               ELSE synthsAlive) + 1
            /\ synthCurrent' = "synth"
            /\ status' = SetState(status, "2/3: Analyzing code structure...")
            /\ UNCHANGED << code, isPlaying, visualNodes, highlightedLines, summary,
                            persistentErrors, mounted, toneRunning, transportState,
                            scheduled, drawQueue, timers >>
            /\ Commit([closure EXCEPT ![s].palette = PaletteKey(genre),
                                      ![s].ws = "connecting",
                                      ![s].pc = "streaming"], s, stopTimeoutRef)
       ELSE /\ synthsAlive' = IF synthCurrent = "synth" THEN synthsAlive - 1
                              ELSE synthsAlive
            /\ synthCurrent' = IF synthCurrent = "null" THEN "null" ELSE "disposed"
            /\ UNCHANGED << code, visualNodes, highlightedLines, persistentErrors,
                            mounted, toneRunning, drawQueue >>
            /\ StopMusic(BackendErrorSummary, [closure EXCEPT ![s].pc = "done"], timers)

\* A variant whose catch block goes on with the default palette.
ClassifyRejectFallsBack(s) == ClassifyResolve(s, "default")

\* A variant whose catch block only logs the error.
ClassifyRejectSilent(s) ==
    /\ Quiescent
    /\ closure[s].pc = "classifying"
    /\ UNCHANGED << reactVars, synthCurrent, mounted, toneRunning, transportState, scheduled,
                    synthsAlive, drawQueue, timers >>
    /\ Commit([closure EXCEPT ![s].pc = "done"], wsCurrent, stopTimeoutRef)

\* classifyCode rejects: the catch block.
ClassifyReject(s) ==
    /\ Quiescent
    /\ closure[s].pc = "classifying"
    /\ UNCHANGED << code, visualNodes, activePalette,
                    highlightedLines, persistentErrors, synthCurrent, mounted, toneRunning,
                    synthsAlive, drawQueue >>
    /\ StopMusic(BackendErrorSummary, [closure EXCEPT ![s].pc = "done"], timers)

\* ------------------------------------------------- the channel's handlers
\* onopen: ws.current?.send(code). The send goes to the socket ws.current
\* names, which takes it when it is open.
WsOpen(s) ==
    /\ Quiescent
    /\ closure[s].ws = "connecting"
    /\ UNCHANGED << reactVars, synthCurrent, mounted, toneRunning, transportState, scheduled,
                    synthsAlive, drawQueue, timers >>
    /\ LET opened == [closure EXCEPT ![s].ws = "open"]
       IN  Commit(IF wsCurrent # NoSession /\ opened[wsCurrent].ws = "open"
                             THEN [opened EXCEPT ![wsCurrent].gotCode = TRUE]
                             ELSE opened, wsCurrent, stopTimeoutRef)

\* A variant that pushes a message only for the first error of a line.
OnMessageOncePerLine(c, data) ==
    IF data.isError
    THEN [c EXCEPT !.musicalEvents = Append(@, data),
                   !.errorMessages = IF data.startLine \in DOMAIN c.collectedErrors
                                     THEN @ ELSE Append(@, FormatError(data)),
                   !.collectedErrors = MapSet(@, data.startLine, data.type)]
    ELSE [c EXCEPT !.musicalEvents = Append(@, data)]

\* The body of onmessage on the closure c of its invocation.
OnMessage(c, data) ==
    IF data.isError
    THEN [c EXCEPT !.musicalEvents = Append(@, data),
                   !.errorMessages = Append(@, FormatError(data)),
                   !.collectedErrors = MapSet(@, data.startLine, data.type)]
    ELSE [c EXCEPT !.musicalEvents = Append(@, data)]

\* A variant whose onmessage shows the draft at once.
WsMessageCommits(s, data) ==
    /\ Quiescent
    /\ closure[s].ws = "open" /\ closure[s].gotCode
    /\ Len(closure[s].musicalEvents) < MaxEvents
    /\ persistentErrors' = SetState(persistentErrors,
                                    OnMessage(closure[s], data).collectedErrors)
    /\ UNCHANGED << code, isPlaying, status, visualNodes, activePalette, highlightedLines,
                    summary, synthCurrent, mounted, toneRunning, transportState, scheduled,
                    synthsAlive, drawQueue, timers >>
    /\ Commit([closure EXCEPT ![s] = OnMessage(@, data)], wsCurrent, stopTimeoutRef)

\* onmessage
WsMessage(s, data) ==
    /\ Quiescent
    /\ closure[s].ws = "open" /\ closure[s].gotCode
    /\ Len(closure[s].musicalEvents) < MaxEvents
    /\ UNCHANGED << reactVars, synthCurrent, mounted, toneRunning, transportState, scheduled,
                    synthsAlive, drawQueue, timers >>
    /\ Commit([closure EXCEPT ![s] = OnMessage(@, data)], wsCurrent, stopTimeoutRef)

\* onerror, of a socket that failed while connecting or open, or that the
\* client closed while it was connecting. The close event follows.
WsError(s) ==
    /\ Quiescent
    /\ closure[s].ws \in {"connecting", "open", "closingFailed"}
    /\ UNCHANGED << code, visualNodes, activePalette,
                    highlightedLines, persistentErrors, synthCurrent, mounted, toneRunning,
                    synthsAlive, drawQueue >>
    /\ StopMusic(ChannelErrorSummary,
                 [closure EXCEPT ![s].ws = "errorFired"],
                 timers)

\* onclose of the socket of session s, which ends closed as how says: by
\* the server, by the client, or after an error
OnClose(s, how) ==
    /\ UNCHANGED << code, visualNodes, activePalette,
                    highlightedLines, persistentErrors, synthCurrent, mounted, toneRunning, synthsAlive,
                    drawQueue >>
    /\ IF Len(closure[s].musicalEvents) = 0
       THEN StopMusic(EmptySummary, [closure EXCEPT ![s].ws = how], timers)
       ELSE /\ status' = SetState(status, "3/3: Composing and playing music...")
            /\ scheduled' = scheduled \cup {s}
            /\ transportState' = "started"
            /\ timers' = timers \cup {s}
            /\ UNCHANGED << isPlaying, summary >>
            /\ Commit([closure EXCEPT
                   ![s].scheduledEvents = Compile(closure[s].musicalEvents,
                                                  closure[s].palette),
                   ![s].seqNext = 1,
                   ![s].ws = how], wsCurrent, s)

\* The server closes the channel: the end of the stream.
WsServerClose(s) ==
    /\ Quiescent
    /\ closure[s].ws = "open" /\ closure[s].gotCode
    /\ OnClose(s, "closed")

\* The closing handshake the client started is over.
WsClientCloseDone(s) ==
    /\ Quiescent
    /\ closure[s].ws = "closing"
    /\ OnClose(s, "closedByClient")

\* The close event that follows an error event.
WsCloseAfterError(s) ==
    /\ closure[s].ws = "errorFired"
    /\ OnClose(s, "closedAfterError")

\* ----------------------------------------------------------- the playback
\* A variant that schedules the drawing at the start of the transport, not
\* at the time its callback was given.
SequenceTickDrawAtStart(s) ==
    /\ Quiescent
    /\ transportState = "started"
    /\ s \in scheduled
    /\ closure[s].seqNext <= Len(closure[s].scheduledEvents)
    /\ Len(drawQueue) < MaxPendingDraws
    /\ drawQueue' = Append(drawQueue,
                           [session |-> s, index |-> closure[s].seqNext,
                            time |-> 0])
    /\ UNCHANGED << reactVars, synthCurrent, mounted, toneRunning, transportState, scheduled,
                    synthsAlive, timers >>
    /\ Commit([closure EXCEPT ![s].seqNext = @ + 1], wsCurrent, stopTimeoutRef)

\* The callback of Tone.Sequence for the next event of the sequence of
\* session s: the audio trigger (synth.current?.triggerAttackRelease, which
\* changes no state), and Tone.Draw.schedule at the same time.
SequenceTick(s) ==
    /\ Quiescent
    /\ transportState = "started"
    /\ s \in scheduled
    /\ closure[s].seqNext <= Len(closure[s].scheduledEvents)
    /\ Len(drawQueue) < MaxPendingDraws
    /\ drawQueue' = Append(drawQueue,
                           [session |-> s, index |-> closure[s].seqNext,
                            time |-> EventOffset(closure[s].seqNext)])
    /\ UNCHANGED << reactVars, synthCurrent, mounted, toneRunning, transportState, scheduled,
                    synthsAlive, timers >>
    /\ Commit([closure EXCEPT ![s].seqNext = @ + 1], wsCurrent, stopTimeoutRef)

\* prev.slice(-n)
SliceLast(prev, n) ==
    IF Len(prev) <= n THEN prev ELSE SubSeq(prev, Len(prev) - n + 1, Len(prev))

\* useRef(duration * (isError ? 3 : 1.5) + 0.5) of NodeVisual, in half
\* milliseconds (duration in milliseconds)
InitialLifetime(duration, isError) ==
    duration * (IF isError THEN 6 ELSE 3) + 2 * MsPerQuarter

\* The callback given to Tone.Draw.schedule, for the oldest pending one.
\* The random position of the node is left out; its id is the time and the
\* entry it was made for. The mesh of the NodeVisual that is mounted for the
\* node is kept with the node: userData.lifetime as its effect sets it, and
\* visible.
DrawFire ==
    /\ Quiescent
    /\ drawQueue # <<>>
    /\ LET d == Head(drawQueue)
           event == closure[d.session].scheduledEvents[d.index]
           newNode == [id |-> << d.time, d.session, d.index >>,
                       type |-> event.type,
                       duration |-> ToSeconds(event.duration),
                       isError |-> event.isError,
                       lifetime |-> InitialLifetime(ToSeconds(event.duration),
                                                    event.isError),
                       visible |-> TRUE]
       IN  /\ highlightedLines' = SetState(highlightedLines,
                   [start |-> event.startLine, end |-> event.endLine,
                    type |-> event.type, isError |-> event.isError])
           /\ visualNodes' = SetState(visualNodes,
                   Append(SliceLast(visualNodes, SliceKeep), newNode))
    /\ drawQueue' = Tail(drawQueue)
    /\ UNCHANGED << code, isPlaying, status, activePalette, summary,
                    persistentErrors, synthCurrent, mounted, toneRunning, transportState, scheduled,
                    synthsAlive, timers >>
    /\ Commit(closure, wsCurrent, stopTimeoutRef)

\* The deltas of a render tick, in half milliseconds: a quarter and a half
\* second.
FrameDeltas == {MsPerQuarter, 2 * MsPerQuarter}

\* One render tick: useFrame of every NodeVisual that is mounted. A mesh
\* that is visible ages by delta and is hidden once its lifetime is not
\* positive; the node stays in visualNodes.
UseFrame(node, delta) ==
    IF ~node.visible THEN node
    ELSE [node EXCEPT !.lifetime = @ - delta,
                      !.visible = (node.lifetime - delta > 0)]

RenderTick(delta) ==
    /\ mounted /\ Quiescent
    /\ \E k \in 1..Len(visualNodes) : visualNodes[k].visible
    /\ visualNodes' = [k \in 1..Len(visualNodes) |-> UseFrame(visualNodes[k], delta)]
    /\ UNCHANGED << code, isPlaying, status, activePalette, highlightedLines, summary,
                    persistentErrors, synthCurrent, mounted, toneRunning, transportState,
                    scheduled, synthsAlive, drawQueue, timers >>
    /\ Commit(closure, wsCurrent, stopTimeoutRef)

\* The timer of session s does not fire before an event of its sequence
\* that the running transport has still to fire ahead of the timer's delay.
TimerDue(s) ==
    ~ ( /\ transportState = "started"
        /\ s \in scheduled
        /\ \E i \in closure[s].seqNext..Len(closure[s].scheduledEvents) :
              EventOffset(i) < FinalizeDelay(closure[s].scheduledEvents) )

\* A variant whose stop clears the highlight and the nodes.
FinalStopClearsScene(s) ==
    /\ Quiescent
    /\ s \in timers
    /\ TimerDue(s)
    /\ persistentErrors' = SetState(persistentErrors, closure[s].collectedErrors)
    /\ highlightedLines' = SetState(highlightedLines, NoHighlight)
    /\ visualNodes' = SetState(visualNodes, <<>>)
    /\ UNCHANGED << code, activePalette, synthCurrent, mounted, toneRunning, synthsAlive,
                    drawQueue >>
    /\ StopMusic(FinalSummary(closure[s].errorMessages), closure, timers \ {s})

\* finalStop, the callback of the timer of session s
FinalStop(s) ==
    /\ Quiescent
    /\ s \in timers
    /\ TimerDue(s)
    /\ persistentErrors' = SetState(persistentErrors, closure[s].collectedErrors)
    /\ UNCHANGED << code, visualNodes, activePalette,
                    highlightedLines, synthCurrent, mounted, toneRunning, synthsAlive, drawQueue >>
    /\ StopMusic(FinalSummary(closure[s].errorMessages), closure, timers \ {s})

\* The cleanup of the effect: stopMusic(); if (ws.current) ws.current.close().
\* The state of the component is discarded with it.
Unmount ==
    /\ Quiescent
    /\ mounted
    /\ mounted' = FALSE
    /\ UNCHANGED << synthCurrent, toneRunning, synthsAlive, drawQueue >>
    /\ timers' = timers \ {stopTimeoutRef}
    /\ transportState' = "stopped"
    /\ scheduled' = {}
    /\ Commit(ClientClose(CloseIfOpen(closure, wsCurrent), wsCurrent),
              wsCurrent, stopTimeoutRef)
    /\ code' = ""
    /\ isPlaying' = FALSE
    /\ status' = ""
    /\ visualNodes' = <<>>
    /\ activePalette' = "default"
    /\ highlightedLines' = NoHighlight
    /\ summary' = NoSummary
    /\ persistentErrors' = EmptyMap

\* ------------------------------------------------------ the specification
Next ==
    \/ \E newCode \in Codes : HandleCodeChange(newCode)
    \/ CloseSummary
    \/ HandlePlayStop
    \/ HandlePlayAwait
    \/ HandlePlayBegin
    \/ \E s \in Sessions : ToneStarted(s)
    \/ \E s \in Sessions, genre \in Genres : ClassifyResolve(s, genre)
    \/ \E s \in Sessions : ClassifyReject(s)
    \/ \E s \in Sessions : WsOpen(s)
    \/ \E s \in Sessions, data \in CodeEvents : WsMessage(s, data)
    \/ \E s \in Sessions : WsError(s)
    \/ \E s \in Sessions : WsServerClose(s)
    \/ \E s \in Sessions : WsClientCloseDone(s)
    \/ \E s \in Sessions : WsCloseAfterError(s)
    \/ \E s \in Sessions : SequenceTick(s)
    \/ DrawFire
    \/ \E s \in Sessions : FinalStop(s)
    \/ Unmount

Spec == Init /\ [][Next]_vars

\* A callback of session s that the environment owes: Tone.start() and the
\* classification request settle, a connecting channel opens or fails, an
\* open channel closes or fails, a close that has begun ends, the transport
\* plays what is scheduled on it, and a set timer fires.
SessionCallback(s) ==
    \/ ToneStarted(s)
    \/ \E genre \in Genres : ClassifyResolve(s, genre)
    \/ ClassifyReject(s)
    \/ WsOpen(s) \/ WsError(s) \/ WsServerClose(s)
    \/ WsClientCloseDone(s) \/ WsCloseAfterError(s)
    \/ SequenceTick(s)
    \/ FinalStop(s)

\* Spec with its callbacks owed; the presses of the user are not. A callback
\* that is owed stays owed while the task of another session runs (the
\* error and the close event of its socket), so the fairness of a session
\* is strong: a session that again and again has a callback pending has
\* one run.
FairSpec ==
    /\ Spec
    /\ \A s \in Sessions : SF_vars(SessionCallback(s))
    /\ WF_vars(DrawFire)

\* ------------------------------------------- a session from its stream on
\* The CodeEvents a stream is drawn from: every error kind of the table and
\* one that is none of them, the declaration constructs and a simple
\* statement, at lines that repeat (two kinds of error share line 7), fall
\* and are negative.
StreamEvents ==
    { [type |-> "syntax_error", startLine |-> 7, endLine |-> 9,
       isError |-> TRUE, message |-> "missing )"],
      [type |-> "syntax_error", startLine |-> 2, endLine |-> 2,
       isError |-> TRUE, message |-> "missing ;"],
      [type |-> "logical_error", startLine |-> 7, endLine |-> 7,
       isError |-> TRUE, message |-> "always false"],
      [type |-> "best_practice", startLine |-> 5, endLine |-> 5,
       isError |-> TRUE, message |-> "use const"],
      [type |-> "type_error", startLine |-> 4, endLine |-> 4,
       isError |-> TRUE, message |-> "not a number"],
      [type |-> "function_declaration", startLine |-> 1, endLine |-> 12,
       isError |-> FALSE, message |-> ""],
      [type |-> "arrow_function", startLine |-> 6, endLine |-> 6,
       isError |-> FALSE, message |-> ""],
      [type |-> "variable_declaration", startLine |-> 5, endLine |-> 5,
       isError |-> FALSE, message |-> ""],
      [type |-> "call_expression", startLine |-> -2, endLine |-> -2,
       isError |-> FALSE, message |-> ""] }

Streams == UNION { [1..n -> StreamEvents] : n \in 0..MaxCompileLen }

\* The closure c after onmessage has run for each event of evs in turn.
RECURSIVE Received(_, _)
Received(c, evs) ==
    IF evs = <<>> THEN c ELSE Received(OnMessage(c, Head(evs)), Tail(evs))

\* The first session of the component, streaming: handlePlay has run up to
\* its return (the genre classified, the synth made, the socket open and
\* the code sent) and onmessage has buffered the events of a stream.
SessionStreaming(evs, genre) ==
        /\ code = "function f() {}"
        /\ isPlaying = TRUE
        /\ status = "2/3: Analyzing code structure..."
        /\ visualNodes = <<>>
        /\ activePalette = PaletteKey(genre)
        /\ highlightedLines = NoHighlight
        /\ summary = NoSummary
        /\ persistentErrors = EmptyMap
        /\ wsCurrent = 1
        /\ synthCurrent = "synth"
        /\ stopTimeoutRef = NoSession
        /\ mounted = TRUE
        /\ toneRunning = TRUE
        /\ transportState = "stopped"
        /\ scheduled = {}
        /\ synthsAlive = 1
        /\ drawQueue = <<>>
        /\ timers = {}
        /\ closure = [s \in Sessions |->
                        IF s = 1
                        THEN Received([FreshClosure EXCEPT
                                         !.pc = "streaming",
                                         !.palette = PaletteKey(genre),
                                         !.ws = "open",
                                         !.gotCode = TRUE], evs)
                        ELSE FreshClosure]

StreamInit ==
    \E evs \in Streams, genre \in Genres :
        PaletteKey(genre) \in DOMAIN musicPalettes /\ SessionStreaming(evs, genre)

\* The end of the stream, the playback and the finalize timer.
StreamNext ==
    \/ \E s \in Sessions : WsServerClose(s)
    \/ \E s \in Sessions : SequenceTick(s)
    \/ DrawFire
    \/ \E s \in Sessions : FinalStop(s)

StreamSpec == StreamInit /\ [][StreamNext]_vars

\* The end of the stream, the playback and the finalize timer, with the
\* render loop of the scene.
RenderNext ==
    \/ StreamNext
    \/ \E delta \in FrameDeltas : RenderTick(delta)

RenderSpec == StreamInit /\ [][RenderNext]_vars

\* A stream of n declarations, one per line: each is a quarter note long,
\* so that the finalize timer is due after the last of the sequence.
LongStream(n) ==
    [i \in 1..n |-> [type |-> "function_declaration", startLine |-> i,
                     endLine |-> i, isError |-> FALSE, message |-> ""]]

\* The first session of the component, streaming, with a long stream
\* buffered.
NodesInit ==
    \E n \in 1..MaxSpawns, genre \in Genres :
        PaletteKey(genre) \in DOMAIN musicPalettes /\ SessionStreaming(LongStream(n), genre)

NodesSpec == NodesInit /\ [][StreamNext]_vars

\* A stream of n simple statements, one per line: each is a sixteenth note
\* long, half the subdivision of the sequence.
LongStatements(n) ==
    [i \in 1..n |-> [type |-> "variable_declaration", startLine |-> i,
                     endLine |-> i, isError |-> FALSE, message |-> ""]]

\* The first session of the component, streaming, with a long stream of
\* simple statements buffered.
StatementsInit ==
    \E n \in 1..MaxSpawns, genre \in Genres :
        PaletteKey(genre) \in DOMAIN musicPalettes
        /\ SessionStreaming(LongStatements(n), genre)

StatementsSpec == StatementsInit /\ [][StreamNext]_vars

\* A stream of n events of one construct, all at one line: the i-th has
\* i - 1 non-error events before it.
LineStream(n, type, line) ==
    [i \in 1..n |-> [type |-> type, startLine |-> line, endLine |-> line,
                     isError |-> FALSE, message |-> ""]]

\* The first session of the component, streaming, with the events of one
\* line buffered: the line is any from -MaxLine to MaxLine.
PitchInit ==
    \E n \in 1..MaxCount, line \in (-MaxLine)..MaxLine, genre \in Genres,
       type \in {"function_declaration", "variable_declaration"} :
        PaletteKey(genre) \in DOMAIN musicPalettes
        /\ SessionStreaming(LineStream(n, type, line), genre)

PitchSpec == PitchInit /\ [][StreamNext]_vars

\* ---------------------------------------------------------------- phases
\* The socket of session s can still dispatch an event.
ChannelLive(s) ==
    closure[s].ws \in {"connecting", "open", "closing", "closingFailed", "errorFired"}

\* The socket of session s has dispatched an error event.
ChannelErrored(s) == closure[s].ws \in {"errorFired", "closedAfterError"}

\* Session s is in playback: its channel has closed, its schedule runs on
\* the transport and its finalize timer is pending.
InPlayback(s) ==
    /\ closure[s].ws \in {"closed", "closedByClient", "closedAfterError"}
    /\ Len(closure[s].scheduledEvents) > 0
    /\ s \in scheduled
    /\ transportState = "started"
    /\ s \in timers

\* Session s is streaming with an event buffered.
InStreaming(s) ==
    /\ closure[s].ws = "open"
    /\ Len(closure[s].musicalEvents) > 0

\* The close callback of session s has run with events buffered: it has
\* compiled its schedule.
Compiled(s) == closure[s].ws \in {"closed", "closedByClient", "closedAfterError"}

\* Session s has started and has not ended: it waits for its
\* classification, or its channel, its schedule or its finalize timer is
\* live.
InProgress(s) ==
    \/ closure[s].pc = "classifying"
    \/ ChannelLive(s)
    \/ s \in scheduled
    \/ s \in timers

\* Session s is the only one of which something can still run.
Alone(s) == \A t \in Sessions \ {s} : ~Live(t)

\* At most one session of which something can still run.
AtMostOneLive == \A s, t \in Sessions : (Live(s) /\ Live(t)) => s = t

\* Nothing of any session is held: no pending timer, the transport stopped
\* and empty, no socket that can dispatch an event.
Released ==
    /\ timers = {}
    /\ transportState = "stopped"
    /\ scheduled = {}
    /\ \A s \in Sessions : ~ChannelLive(s)

\* ------------------------------------------------------------- the claims
\* The claims about one session are stated of a session that is alone, so
\* that what refutes them is that session's own course.

\* C1: a play request during playback acts as a stop: wherever a session
\* is in playback and the request can be made, the step the request takes
\* cancels the pending finalize timer, stops and clears the transport and
\* brings the controller back to Idle.
C1_PlayInPlaybackStops ==
    \A s \in Sessions :
        (Alone(s) /\ InPlayback(s) /\ ENABLED HandlePlayStop)
        => ENABLED (HandlePlayStop /\ s \notin timers' /\ transportState' = "stopped"
                    /\ scheduled' = {} /\ ~isPlaying')

\* C2: a play request during Streaming with an event buffered aborts the
\* session: when the channel the request closed reports its close (the
\* controller still playing, as the request left it), no schedule is
\* compiled or started and no finalize timer is set.
C2_PlayInStreamingAborts ==
    [][ \A s \in Sessions :
          (mounted /\ isPlaying /\ Alone(s)
           /\ Len(closure[s].musicalEvents) > 0 /\ WsClientCloseDone(s))
          => (s \notin timers' /\ s \notin scheduled'
              /\ transportState' = "stopped") ]_vars

\* C3: a session whose channel has reported an error never compiles or
\* plays a schedule: it has no ScheduledEvent, no sequence on the transport
\* and no finalize timer, whatever it had buffered, also after the close
\* callback that follows the error.
C3_ErrorNeverPlays ==
    \A s \in Sessions :
        (Alone(s) /\ ChannelErrored(s))
        => (closure[s].scheduledEvents = <<>> /\ s \notin scheduled
            /\ s \notin timers)

\* C4: once the channel of a session has reported an error, the callbacks
\* of that session that follow (its close callback, its finalize timer)
\* leave the summary titled "Connection Error".
C4_ErrorSummaryStays ==
    [][ \A s \in Sessions :
          (mounted /\ Alone(s) /\ ChannelErrored(s)
           /\ (WsCloseAfterError(s) \/ FinalStop(s)))
          => summary'.title = "Connection Error" ]_vars

\* C5: when the user stops a session in playback, PersistentErrorMap after
\* the step of the stop request is the map that was committed before that
\* session started.
C5_StopKeepsCommittedMap ==
    \A s \in Sessions :
        (Alone(s) /\ InPlayback(s) /\ ENABLED HandlePlayStop)
        => ENABLED (HandlePlayStop /\ persistentErrors' = closure[s].errorsBefore)

\* C6: the finalize action of a session commits its draft only if the
\* session completed naturally: its channel was closed by the server, with
\* no channel error and no stop by the user.
C6_CommitOnlyOnCompletion ==
    [][ \A s \in Sessions :
          (mounted /\ Alone(s) /\ FinalStop(s)) => closure[s].ws = "closed" ]_vars

\* C7: a new session (its state reset and classification) never begins
\* while a channel, a transport schedule or a finalize timer of another
\* session is live.
C7_OneSessionAtATime ==
    [][ \A s \in Sessions :
          (closure[s].pc # "classifying" /\ closure'[s].pc = "classifying")
          => \A t \in Sessions \ {s} :
                ~ChannelLive(t) /\ t \notin scheduled /\ t \notin timers ]_vars

\* C8: whenever the controller is Idle (between the tasks of the event
\* loop), no finalize timer is pending, the transport is stopped with no
\* scheduled entries, and no channel is open or able to run its handlers.
C8_IdleHoldsNothing ==
    (mounted /\ ~isPlaying /\ Quiescent /\ AtMostOneLive) => Released

\* C9: while the controller is Idle and every session has ended, no audio
\* voice remains allocated.
C9_VoiceDisposedAtEnd ==
    (mounted /\ ~isPlaying /\ \A s \in Sessions : ~Live(s)) => synthsAlive = 0

\* C10: after component teardown no finalize timer is pending or set and
\* no transport schedule is started.
C10_TeardownReleases ==
    (~mounted /\ AtMostOneLive) => (timers = {} /\ transportState = "stopped" /\ scheduled = {})

\* ------------------------------------------------------------- idempotence
\* A step of session s that calls stopMusic: the error callback, the close
\* callback with nothing buffered, the catch block, the finalize timer.
StopsMusic(s) ==
    \/ WsError(s)
    \/ ClassifyReject(s)
    \/ FinalStop(s)
    \/ /\ Len(closure[s].musicalEvents) = 0
       /\ (WsServerClose(s) \/ WsClientCloseDone(s) \/ WsCloseAfterError(s))

\* The state a stop with a summary leaves: Idle, the summary shown and its
\* title the status, no timer, the transport stopped and empty.
JustStopped ==
    /\ ~isPlaying
    /\ summary # NoSummary /\ status = summary.title
    /\ timers = {} /\ transportState = "stopped" /\ scheduled = {}

\* C11: stop is idempotent: a stop invoked in the state a stop (or a
\* natural completion) has left changes nothing that can be observed:
\* playing flag, summary, status, PersistentErrorMap, highlight, visual
\* nodes, timers and transport.
C11_StopIdempotent ==
    [][ \A s \in Sessions :
          (mounted /\ JustStopped /\ Alone(s) /\ StopsMusic(s))
          => UNCHANGED << isPlaying, summary, status, persistentErrors,
                          highlightedLines, visualNodes, timers,
                          transportState, scheduled >> ]_vars

\* --------------------------------------------------------------- re-entrancy
\* C12: a play request while a session is playing starts no session: the
\* step resets no state, sends no invocation into the audio start or the
\* classification and opens no channel; all it changes is the channel of
\* ws.current, which it closes.
C12_PlayWhilePlayingOnlyCloses ==
    [][ HandlePlayStop
        => /\ UNCHANGED << reactVars, synthCurrent, synthsAlive, toneRunning,
                           transportState, scheduled, timers, drawQueue >>
           /\ \A s \in Sessions :
                 /\ closure'[s].pc = closure[s].pc
                 /\ closure'[s].ws # closure[s].ws
                    => /\ s = wsCurrent
                       /\ closure[s].ws \in {"connecting", "open"}
                       /\ closure'[s].ws \in {"closingFailed", "closing"}
                 /\ [closure'[s] EXCEPT !.ws = closure[s].ws] = closure[s] ]_vars

\* A play request has closed the open channel of the session that plays.
C12_Witness ==
    \E s \in Sessions :
        /\ mounted /\ isPlaying
        /\ closure[s].ws = "closing"
        /\ wsCurrent = s

\* ---------------------------------------------------- the timeline compiler
\* The sum of secondsOf(duration) of the first n entries of a schedule.
RECURSIVE DurationSum(_, _)
DurationSum(sched, n) ==
    IF n = 0 THEN 0 ELSE DurationSum(sched, n - 1) + ToSeconds(sched[n].duration)

\* C13: in a compiled schedule the first entry is at time 0 and every
\* entry is at the sum of the durations of the entries before it, so the
\* times never decrease along the schedule.
C13_TimesAreCumulative ==
    \A s \in Sessions :
        Compiled(s) =>
            LET sched == closure[s].scheduledEvents
            IN  /\ sched[1].time = 0
                /\ \A i \in 1..Len(sched) : sched[i].time = DurationSum(sched, i - 1)
                /\ \A i \in 1..(Len(sched) - 1) : sched[i].time <= sched[i + 1].time

\* A schedule of three entries whose times rise twice.
C13_Witness ==
    \E s \in Sessions :
        /\ Compiled(s)
        /\ Len(closure[s].scheduledEvents) = 3
        /\ 0 < closure[s].scheduledEvents[2].time
        /\ closure[s].scheduledEvents[2].time < closure[s].scheduledEvents[3].time

\* C14: the compiled schedule has one entry per buffered event, in the
\* order of arrival: it is as long as the buffer and its i-th entry has
\* the kind, startLine, endLine, isError and message of the i-th event.
C14_OneEntryPerEvent ==
    \A s \in Sessions :
        Compiled(s) =>
            LET sched == closure[s].scheduledEvents
                events == closure[s].musicalEvents
            IN  /\ Len(sched) = Len(events)
                /\ \A i \in 1..Len(events) :
                      /\ sched[i].type = events[i].type
                      /\ sched[i].startLine = events[i].startLine
                      /\ sched[i].endLine = events[i].endLine
                      /\ sched[i].isError = events[i].isError
                      /\ sched[i].message = events[i].message

\* A compiled stream of three events whose lines fall.
C14_Witness ==
    \E s \in Sessions :
        /\ Compiled(s)
        /\ Len(closure[s].musicalEvents) = 3
        /\ closure[s].musicalEvents[1].startLine > closure[s].musicalEvents[2].startLine
        /\ closure[s].musicalEvents[2].startLine > closure[s].musicalEvents[3].startLine
        /\ closure[s].musicalEvents[1].endLine > closure[s].musicalEvents[1].startLine

\* The number of non-error events before the i-th of events.
NonErrorBefore(events, i) ==
    Cardinality({ j \in 1..(i - 1) : ~events[j].isError })

\* C15: the entry of a non-error event, with n the number of non-error
\* events before it and index = |startLine + n|, has the pair
\* (scale[index mod len], scale[(index + 3) mod len]) and duration 4n when
\* its kind is function_declaration or arrow_function, and the single
\* scale[index mod len] and duration 16n otherwise.
C15_NonErrorPitch ==
    \A s \in Sessions :
        Compiled(s) =>
            LET sched == closure[s].scheduledEvents
                events == closure[s].musicalEvents
                scale == musicPalettes[closure[s].palette].scale
            IN  \A i \in 1..Len(events) :
                  ~events[i].isError =>
                    LET sum == events[i].startLine + NonErrorBefore(events, i)
                        index == IF sum < 0 THEN -sum ELSE sum
                    IN  IF events[i].type \in {"function_declaration", "arrow_function"}
                        THEN /\ sched[i].note = << scale[(index % Len(scale)) + 1],
                                                   scale[((index + 3) % Len(scale)) + 1] >>
                             /\ sched[i].duration = "4n"
                        ELSE /\ sched[i].note = << scale[(index % Len(scale)) + 1] >>
                             /\ sched[i].duration = "16n"

\* The spec's example: startLine 5 as the third non-error event, a simple
\* statement after two non-error events, sounds scale[7 mod len].
C15_Witness ==
    \E s \in Sessions :
        /\ Compiled(s)
        /\ Len(closure[s].musicalEvents) = 3
        /\ ~closure[s].musicalEvents[1].isError
        /\ ~closure[s].musicalEvents[2].isError
        /\ closure[s].musicalEvents[3].type = "variable_declaration"
        /\ closure[s].musicalEvents[3].startLine = 5
        /\ closure[s].scheduledEvents[3].note =
              << musicPalettes[closure[s].palette].scale[(7 % 8) + 1] >>

\* C16: the pitch and duration of the entry of an error event are those
\* of its error kind, whatever the palette, the startLine and the position
\* in the stream: the entry sounds as the same kind of error would in any
\* scale, at any line and after any number of non-error events.
C16_ErrorPitchByKindOnly ==
    \A s \in Sessions :
        Compiled(s) =>
            LET sched == closure[s].scheduledEvents
                events == closure[s].musicalEvents
            IN  \A i \in 1..Len(events) :
                  events[i].isError =>
                    \A k \in DOMAIN musicPalettes, e \in StreamEvents,
                       n \in 0..MaxCompileLen :
                        LET other == EventSound([events[i] EXCEPT
                                                   !.startLine = e.startLine],
                                                musicPalettes[k].scale, n)
                        IN  /\ sched[i].note = other.note
                            /\ sched[i].duration = other.duration

\* A compiled stream with an error of a listed kind, one of no listed kind
\* and, between them, a non-error event.
C16_Witness ==
    \E s \in Sessions :
        /\ Compiled(s)
        /\ Len(closure[s].musicalEvents) = 3
        /\ closure[s].musicalEvents[1].type = "syntax_error"
        /\ ~closure[s].musicalEvents[2].isError
        /\ closure[s].musicalEvents[3].type = "type_error"
        /\ closure[s].scheduledEvents[3].note = << "C2" >>

C18_AtMostThirtyNodes ==
    /\ Len(visualNodes) <= 30
    /\ \A k \in 1..(Len(visualNodes) - 1) :
          visualNodes[k + 1].id[3] = visualNodes[k].id[3] + 1

\* ------------------------------------------------------ the end of a session
\* C19: when the channel closes with no event buffered the session ends at
\* once: no ScheduledEvent, no schedule on the transport and no finalize
\* timer, the summary titled "Analysis Complete" with the one message that
\* nothing was found, the controller Idle and PersistentErrorMap empty.
C19_EmptyStreamEndsAtOnce ==
    [][ \A s \in Sessions :
          (mounted /\ Alone(s) /\ Len(closure[s].musicalEvents) = 0 /\ WsServerClose(s))
          => /\ closure'[s].scheduledEvents = <<>>
             /\ timers' = {} /\ scheduled' = {} /\ transportState' = "stopped"
             /\ summary'.title = "Analysis Complete"
             /\ summary'.messages =
                   << <<"No parsable musical elements were found in the code.">> >>
             /\ ~isPlaying'
             /\ persistentErrors' = EmptyMap ]_vars

\* C20: the finalize action of a session that completes naturally titles
\* the summary "Analysis Complete: Issues Found" if an event of its buffer
\* had isError, and "Analysis Complete: Code is Clean!" otherwise; the
\* stream of the one event {syntax_error, 7, 9, isError} has a schedule of
\* one entry at time 0 and ends titled "Analysis Complete: Issues Found".
C20_TitleTellsErrors ==
    [][ \A s \in Sessions :
          (mounted /\ closure[s].ws = "closed" /\ FinalStop(s))
          => LET events == closure[s].musicalEvents
                 sched == closure[s].scheduledEvents
             IN  /\ summary'.title =
                       IF \E i \in 1..Len(events) : events[i].isError
                       THEN "Analysis Complete: Issues Found"
                       ELSE "Analysis Complete: Code is Clean!"
                 /\ (/\ Len(events) = 1
                     /\ events[1].type = "syntax_error"
                     /\ events[1].startLine = 7 /\ events[1].endLine = 9
                     /\ events[1].isError)
                    => (/\ Len(sched) = 1 /\ sched[1].time = 0
                        /\ summary'.title = "Analysis Complete: Issues Found") ]_vars

\* The end of the session of the one syntax_error at lines 7 to 9.
C20_Witness ==
    /\ mounted /\ ~isPlaying
    /\ summary.title = "Analysis Complete: Issues Found"
    /\ Len(summary.messages) = 1
    /\ persistentErrors = (7 :> "syntax_error")

\* ------------------------------------------------- what a completion leaves
\* C21: the map committed at natural completion has as keys the startLines
\* of the error events of the session, each mapped to the kind of the last
\* error event that arrived with that startLine; non-error events give no
\* key.
C21_CommittedMapLastWins ==
    [][ \A s \in Sessions :
          (mounted /\ closure[s].ws = "closed" /\ FinalStop(s))
          => LET events == closure[s].musicalEvents
                 errs == { i \in 1..Len(events) : events[i].isError }
             IN  /\ DOMAIN persistentErrors' = { events[i].startLine : i \in errs }
                 /\ \A i \in errs :
                       (\A j \in errs : j > i => events[j].startLine # events[i].startLine)
                       => persistentErrors'[events[i].startLine] = events[i].type ]_vars

\* A completed session whose first error, a syntax_error at line 7, was
\* followed by a logical_error at line 7 and an error at line 2.
C21_Witness ==
    /\ mounted /\ ~isPlaying
    /\ Len(summary.messages) = 3
    /\ summary.messages[1][2] = 7 /\ summary.messages[1][4] = "syntax_error"
    /\ DOMAIN persistentErrors = {2, 7}
    /\ persistentErrors[7] = "logical_error"

\* The error events of a buffer, in arrival order.
ErrorsOf(events) == SelectSeq(events, LAMBDA e : e.isError)

\* C30: the summary of a naturally completed session lists one message per
\* error event received, in arrival order, each "Line {startLine}: [{kind}]
\* {message}"; two errors of one line give two messages.
C30_OneMessagePerError ==
    [][ \A s \in Sessions :
          (mounted /\ closure[s].ws = "closed" /\ FinalStop(s))
          => LET errors == ErrorsOf(closure[s].musicalEvents)
             IN  /\ Len(summary'.messages) = Len(errors)
                 /\ \A k \in 1..Len(errors) :
                       summary'.messages[k] =
                           << "Line ", errors[k].startLine, ": [", errors[k].type,
                              "] ", errors[k].message >> ]_vars

\* The summary of a completed session with two errors at line 7: two
\* messages, one entry of the map.
C30_Witness ==
    /\ mounted /\ ~isPlaying
    /\ Len(summary.messages) = 2
    /\ summary.messages[1] = << "Line ", 7, ": [", "syntax_error", "] ", "missing )" >>
    /\ summary.messages[2] = << "Line ", 7, ": [", "logical_error", "] ", "always false" >>
    /\ DOMAIN persistentErrors = {7}

\* ------------------------------------------------------------------ editing
\* C22: an edit of the source text while Idle, with no session of which
\* anything can still run, leaves PersistentErrorMap empty and the
\* highlight cleared, whatever they were before.
C22_EditClearsAnnotations ==
    [][ \A newCode \in Codes :
          ((\A s \in Sessions : ~Live(s)) /\ HandleCodeChange(newCode))
          => (persistentErrors' = EmptyMap /\ highlightedLines' = NoHighlight) ]_vars

\* ------------------------------------------------------------ the playback
\* C23: the audio trigger of each ScheduledEvent happens at the transport
\* time that is the entry's absoluteTime, the cumulative sum of the
\* durations before it: the time the sequence hands to the callback of an
\* entry, kept by the drawing it schedules, is the time of the entry.
C23_TriggerAtAbsoluteTime ==
    \A k \in 1..Len(drawQueue) :
        drawQueue[k].time =
            closure[drawQueue[k].session].scheduledEvents[drawQueue[k].index].time

C25_PaletteByGenre ==
    [][ /\ \A s \in Sessions, genre \in Genres :
             (mounted /\ Alone(s) /\ ClassifyResolve(s, genre))
             => LET key == IF genre \in DOMAIN musicPalettes THEN genre ELSE "default"
                IN  /\ closure'[s].pc = "streaming"
                    /\ closure'[s].ws = "connecting"
                    /\ closure'[s].palette = key
                    /\ activePalette' = key
                    /\ isPlaying'
        /\ \A s \in Sessions :
             (closure[s].pc = "streaming" /\ closure'[s].pc = "streaming")
             => closure'[s].palette = closure[s].palette ]_vars

\* ------------------------------------------------------ the classification
\* C26: no channel is opened and no CodeEvent is received before the
\* classification of the session has completed successfully: a session that
\* waits for the audio context or for the classification has no channel and
\* an empty buffer, and a channel comes only with the step that ends the
\* classification. When the classification fails no channel is opened for
\* the session, then or later, and the session ends in Idle.
C26_NoChannelBeforeClassified ==
    /\ [] (\A s \in Sessions :
              closure[s].pc \in {"awaitStart", "classifying"}
              => /\ closure[s].ws = "none" /\ ~closure[s].gotCode
                 /\ closure[s].musicalEvents = <<>>)
    /\ [][ /\ \A s \in Sessions :
                (closure[s].ws = "none" /\ closure'[s].ws # "none")
                => (closure[s].pc = "classifying" /\ closure'[s].pc = "streaming")
           /\ \A s \in Sessions :
                ClassifyReject(s)
                => /\ closure'[s].ws = "none" /\ ~Live(s)'
                   /\ (mounted /\ Alone(s)) => (~isPlaying' /\ Released') ]_vars

\* The first session of the component has ended by the failure of its
\* classification: Idle, with the summary of the catch block, and no voice
\* was ever made.
C26_Witness ==
    /\ mounted /\ ~isPlaying
    /\ summary = BackendErrorSummary
    /\ activePalette = "default" /\ synthCurrent = "null"
    /\ \A s \in Sessions : ~Live(s)

\* ---------------------------------------------------- the draft and the map
\* C27: PersistentErrorMap is changed neither by the arrival of a CodeEvent
\* nor by the firing of a ScheduledEvent or of its drawing, nor by any other
\* step a session takes between its start and its finalize action (the end
\* of the classification, the events of the channel, a stop request); the
\* finalize action makes the map the whole draft in one step.
C27_DraftCommittedAtOnce ==
    [][ /\ \A s \in Sessions :
             ( \/ \E data \in CodeEvents : WsMessage(s, data)
               \/ SequenceTick(s) \/ DrawFire
               \/ \E genre \in Genres : ClassifyResolve(s, genre)
               \/ ClassifyReject(s) \/ WsOpen(s) \/ WsError(s)
               \/ WsServerClose(s) \/ WsClientCloseDone(s) \/ WsCloseAfterError(s)
               \/ HandlePlayStop )
             => persistentErrors' = persistentErrors
        /\ \A s \in Sessions :
             (mounted /\ FinalStop(s))
             => persistentErrors' = closure[s].collectedErrors ]_vars

\* A session in playback whose draft has an entry, whose one ScheduledEvent
\* has fired and been drawn, and the map still empty.
C27_Witness ==
    \E s \in Sessions :
        /\ mounted /\ isPlaying /\ closure[s].ws = "closed"
        /\ closure[s].collectedErrors = (7 :> "syntax_error")
        /\ closure[s].seqNext = 2 /\ Len(visualNodes) = 1
        /\ persistentErrors = EmptyMap

\* ------------------------------------------------------ the start of a session
\* C28: a play request accepted in Idle resets the visual node set to empty,
\* the highlight to none, the summary to none and the error state to empty
\* before the classification request is issued: the step that takes a
\* session to its classification leaves all four reset, and the controller
\* playing.
C28_StartResetsState ==
    [][ \A s \in Sessions :
          (mounted /\ closure[s].pc # "classifying" /\ closure'[s].pc = "classifying")
          => /\ visualNodes' = <<>>
             /\ highlightedLines' = NoHighlight
             /\ summary' = NoSummary
             /\ persistentErrors' = EmptyMap
             /\ isPlaying' ]_vars

\* A session at its classification that found an error map, and is alone:
\* the map, the nodes, the highlight and the summary of the session before
\* are gone.
C28_Witness ==
    \E s \in Sessions :
        /\ mounted /\ Alone(s) /\ closure[s].pc = "classifying"
        /\ closure[s].errorsBefore = (7 :> "syntax_error")
        /\ persistentErrors = EmptyMap /\ visualNodes = <<>>
        /\ highlightedLines = NoHighlight /\ summary = NoSummary

\* ------------------------------------------------ the schedule and the timer
\* C29: in an uninterrupted session with N >= 1 buffered events every one
\* of the N ScheduledEvents fires, once, and all of them have fired when
\* the finalize action, set for cumulativeTime + 2 seconds after the start
\* of the playback, stops the transport.
C29_AllFiredBeforeFinalize ==
    [][ \A s \in Sessions :
          (mounted /\ closure[s].ws = "closed" /\ FinalStop(s))
          => closure[s].seqNext = Len(closure[s].scheduledEvents) + 1 ]_vars

\* ------------------------------------------------------ the life of a node
\* C31: a VisualNode is created when its ScheduledEvent fires, ages on each
\* render tick, and is removed from the active node set as soon as its
\* remaining lifetime is not positive: the set never holds a node whose
\* lifetime has expired.
C31_ExpiredNodesRemoved ==
    \A k \in 1..Len(visualNodes) : visualNodes[k].lifetime > 0

\* --------------------------------------------------- what the stop leaves
\* C32: the stop operation leaves the highlight, the visual node set and
\* PersistentErrorMap unchanged: it changes only the playing flag, the
\* status text, the summary (when one is passed) and the timer, transport,
\* sequence and channel. Every step that is the stop operation alone (the
\* catch block, the channel error, the close of an empty stream) leaves the
\* three as they are, and the finalize action, which sets the map itself
\* before it stops, leaves the highlight and the nodes.
C32_StopLeavesAnnotations ==
    [][ \A s \in Sessions :
          /\ ( \/ ClassifyReject(s) \/ WsError(s)
               \/ /\ Len(closure[s].musicalEvents) = 0
                  /\ (WsServerClose(s) \/ WsClientCloseDone(s) \/ WsCloseAfterError(s)) )
             => /\ UNCHANGED << highlightedLines, visualNodes, persistentErrors >>
                /\ UNCHANGED << code, activePalette, synthCurrent, synthsAlive,
                                toneRunning, drawQueue, mounted >>
                /\ mounted => /\ ~isPlaying'
                              /\ summary' # NoSummary /\ status' = summary'.title
          /\ FinalStop(s)
             => /\ UNCHANGED << highlightedLines, visualNodes >>
                /\ UNCHANGED << code, activePalette, synthCurrent, synthsAlive,
                                toneRunning, drawQueue, mounted >>
                /\ mounted => /\ ~isPlaying'
                              /\ summary' # NoSummary /\ status' = summary'.title ]_vars

\* The finalize action has stopped a session whose one event was drawn: the
\* node and the highlight of lines 7 to 9 are still there, nothing plays and
\* nothing is pending.
C32_Witness ==
    /\ mounted /\ ~isPlaying /\ summary # NoSummary
    /\ timers = {} /\ scheduled = {} /\ transportState = "stopped"
    /\ Len(visualNodes) = 1 /\ visualNodes[1].type = "syntax_error"
    /\ highlightedLines # NoHighlight
    /\ highlightedLines.start = 7 /\ highlightedLines.end = 9
    /\ persistentErrors = (7 :> "syntax_error")

\* ------------------------------------------------------------- termination
\* C33: every session that starts eventually returns to Idle with a summary
\* surfaced, when the classification request settles, an opened channel
\* closes or fails and set timers fire, under every interleaving of play
\* presses with those callbacks: from the classification of a session on, a
\* state comes in which the session is over, nothing plays and a summary is
\* shown (or the component is gone).
C33_SessionEndsWithSummary ==
    \A s \in Sessions :
        (mounted /\ closure[s].pc = "classifying")
        ~> (~mounted \/ (~InProgress(s) /\ ~isPlaying /\ summary # NoSummary))

\* A session has run its course: its one event was played and drawn, its
\* finalize action has run, and the controller is Idle with the summary of
\* a clean stream.
C33_Witness ==
    /\ mounted /\ ~isPlaying
    /\ \A s \in Sessions : ~InProgress(s)
    /\ summary.title = "Analysis Complete: Code is Clean!"
    /\ status = summary.title
    /\ Len(visualNodes) = 1 /\ drawQueue = <<>>

\* ---------------------------------------------------- one session's callbacks
\* C34: a finalize action only ever acts on the session that created it:
\* the finalize timer and the channel callbacks of a session never fire
\* once the next session has started, so they neither commit their draft
\* error map or summary into the state of the next session, nor stop its
\* transport, nor clear its timer, nor close its channel. Stated of any two
\* sessions: a finalize action or a channel callback of one leaves the
\* other, when that is in progress, with its channel, its schedule, its
\* timer, and the map and the summary it shows.
C34_CallbacksActOnOwnSession ==
    [][ \A s \in Sessions : \A t \in Sessions \ {s} :
          ( /\ mounted /\ InProgress(t)
            /\ ( \/ FinalStop(s) \/ WsError(s) \/ WsCloseAfterError(s)
                 \/ WsServerClose(s) \/ WsClientCloseDone(s) ) )
          => /\ closure'[t].ws = closure[t].ws
             /\ t \in scheduled => t \in scheduled'
             /\ t \in timers => t \in timers'
             /\ persistentErrors' = persistentErrors
             /\ summary' = summary ]_vars

\* ------------------------------------------------------ pitches of the scale
\* C35: for every integer startLine, zero and negative included, and every
\* count of non-error events before it, each pitch selected for a non-error
\* event is an element of the scale of the palette of the session: both
\* indices used are within 0..len-1.
C35_PitchesInScale ==
    \A s \in Sessions :
        LET sched == closure[s].scheduledEvents
            scale == musicPalettes[closure[s].palette].scale
        IN  \A i \in 1..Len(sched) :
                ~sched[i].isError
                => /\ Len(sched[i].note) \in {1, 2}
                   /\ \A k \in 1..Len(sched[i].note) :
                         \E j \in 0..(Len(scale) - 1) : sched[i].note[k] = scale[j + 1]

\* The schedule of four declarations at line -3 in the default palette has
\* played: the first took the pitches at 3 and 6 of the scale, the fourth,
\* whose index is 0, those at 0 and 3.
C35_Witness ==
    \E s \in Sessions :
        LET sched == closure[s].scheduledEvents
        IN  /\ closure[s].palette = "default"
            /\ Len(sched) = 4 /\ closure[s].seqNext = 5
            /\ sched[1].startLine = -3
            /\ sched[1].note = << "F4", "B4" >>
            /\ sched[4].note = << "C4", "F4" >>

====
